---- MODULE Spec2Model ----
(***************************************************************************)
(* Model of the site-analysis backend: the spatial radius query, the       *)
(* neighbour-count density, the co-location grouping, the classifier in    *)
(* both modes, the validator and the pipeline that runs them in order.     *)
(*                                                                         *)
(* Representation                                                          *)
(*  - A table (DataFrame) is a sequence of row records, one per row, in    *)
(*    row order; a Series is a sequence aligned to it by position.         *)
(*  - Sites lie on one meridian (equal lon), as in the repository's tests. *)
(*    There the Haversine distance of two sites is the arc between their   *)
(*    latitudes, so a site's lat is kept as its arc in metres north of a   *)
(*    base point, and an angle is kept in units of 1/(EARTH_RADIUS_KM *    *)
(*    1000) rad, i.e. as the metres of arc it spans.                       *)
(*  - A site_id string is kept as its rank in lexicographic order          *)
(*    (1 for "A", 2 for "B", ...), so sorted() is the numeric sort.        *)
(*  - A density is kept as [num, rsq], the value num / (pi * rsq).         *)
(***************************************************************************)
EXTENDS Integers, Sequences, FiniteSets, TLC

\* Bounds of the model.
MaxRows == 3
NumIds == 2
MaxClassRows == 4
MaxModeRows == 2
MaxPipelineRows == 2
MaxConcurrentRows == 1

SiteIds == 1..NumIds
\* PYTHONHASHSEED values a process can start with.
Seeds == {0, 1}
\* Latitudes (metres of arc) of the grouping inputs, the thresholds of the
\* service interface (threshold_m >= 0) and those of the edge cases.
NearPositions == {0, 50, 100}
Thresholds == {0, 50, 100}
EdgeThresholds == {-50, 0, 50}
\* Latitudes (metres of arc) of the density inputs, and the radii tried (km).
FarPositions == {0, 1000, 2000, 3000}
Radii == {-1, 0, 1, 2}
\* Densities and cluster_ids of the classifier inputs.
Densities == {1, 2, 3, 4}
ClusterIds == {"1", "2"}
\* Densities (sites per km2) and cut points of the threshold-mode inputs:
\* the defaults, values between them and values beyond them.
ThresholdDensities == {5, 10, 25, 50, 200, 300}
CutPoints == {10, 25, 50, 200}
\* Mode strings: the two the classifier knows and one it does not.
Modes == {"quantile", "threshold", "kmeans"}

\* df, threshold_m, radius_km, classification_mode, classification_thresholds:
\* the arguments of a call of one stage function; res: what the call
\* returned; pc: how far the calls have come; hashseed: the process's
\* PYTHONHASHSEED.  runs: the locals of each call of process_sites; logged:
\* the records the module-level logger of validator.py has been given.
VARIABLES df, threshold_m, radius_km, hashseed, classification_mode,
          classification_thresholds, res, pc, runs, logged

vars == <<df, threshold_m, radius_km, hashseed, classification_mode,
          classification_thresholds, res, pc, runs, logged>>

\* No call has returned yet.
NoResult == [op |-> "none"]

\* An Optional value is kept as a sequence: <<>> for None, <<x>> for x.
None == <<>>
Some(x) == <<x>>

Abs(x) == IF x < 0 THEN -x ELSE x

\* The Series (array) of n entries whose entry i is Entry(i).
Series(n, Entry(_)) ==
  LET F[i \in 0..n] == IF i = 0 THEN <<>> ELSE Append(F[i - 1], Entry(i))
  IN  F[n]

\* All tables of at most n rows whose rows are drawn from Rows.
TablesOver(Rows, n) == UNION {[1..k -> Rows] : k \in 0..n}

(***************************************************************************)
(* spatial_index.py                                                        *)
(***************************************************************************)

\* The (lat, lon) array in radians, one entry per row, in row order.
coords_to_radians(t) == Series(Len(t), LAMBDA i : t[i].lat)

\* km / EARTH_RADIUS_KM; the argument is given in metres (km * 1000).
km_to_radians(m) == m

\* Great-circle distance of two points of one meridian.
haversine_distance(a, b) == Abs(a - b)

\* BallTree.query_radius for point i: the points within r, boundary included.
query_radius_strict(coords, i, r) ==
  {j \in 1..Len(coords) : haversine_distance(coords[i], coords[j]) < r}

query_radius(coords, i, r) ==
  {j \in 1..Len(coords) : haversine_distance(coords[i], coords[j]) <= r}

(***************************************************************************)
(* colocation.py                                                           *)
(***************************************************************************)

\* row_indices/col_indices: the pairs (i, j), j a neighbour of i other than i.
NeighborPairs(coords, r) ==
  {<<i, j>> \in (1..Len(coords)) \X (1..Len(coords)) :
     j \in query_radius(coords, i, r) /\ i # j}

\* all_rows/all_cols: every pair is entered in both directions.
Adjacency(coords, r) ==
  LET P == NeighborPairs(coords, r)
  IN  P \cup {<<p[2], p[1]>> : p \in P}

\* Only the direct neighbours of the frontier: no transitive step.
ReachDirect(adj, frontier, visited) ==
  visited \cup {e[2] : e \in {x \in adj : x[1] \in frontier}}

\* Breadth-first search from a frontier over the adjacency matrix.
RECURSIVE Reach(_, _, _)
Reach(adj, frontier, visited) ==
  LET next == {e[2] : e \in {x \in adj : x[1] \in frontier}} \ visited
  IN  IF next = {} THEN visited ELSE Reach(adj, next, visited \cup next)

\* scipy connected_components: nodes are taken in index order, and a node
\* not yet labelled starts the next component, labelled with the next number.
RECURSIVE LabelFrom(_, _, _, _, _)
LabelFrom(n, adj, i, labels, ncomp) ==
  IF i > n THEN labels
  ELSE IF labels[i] # -1 THEN LabelFrom(n, adj, i + 1, labels, ncomp)
  ELSE LET comp == Reach(adj, {i}, {i})
       IN  LabelFrom(n, adj, i + 1,
                     Series(n, LAMBDA k : IF k \in comp THEN ncomp ELSE labels[k]),
                     ncomp + 1)

connected_components(n, adj) ==
  LabelFrom(n, adj, 1, Series(n, LAMBDA k : -1), 0)

\* components[label]: the row indices carrying the label, in row order.
ComponentIndices(labels, label) ==
  LET F[i \in 0..Len(labels)] ==
        IF i = 0 THEN <<>>
        ELSE IF labels[i] = label THEN Append(F[i - 1], i) ELSE F[i - 1]
  IN  F[Len(labels)]

\* hash() of a str: keyed by the process's hash seed.
StrHash(seed, s) == s + seed * NumIds

HashMult == NumIds * Cardinality(Seeds) + 1

\* hash() of a tuple of str: a fold over the items' hashes.  The fold is
\* kept free of collisions on the model's tuples.
TupleHash(seed, t) ==
  LET F[i \in 0..Len(t)] ==
        IF i = 0 THEN 0 ELSE F[i - 1] * HashMult + StrHash(seed, t[i])
  IN  F[Len(t)]

\* sorted([df.iloc[i]['site_id'] for i in component_indices])
ComponentSiteIdsUnsorted(t, idx) ==
  Series(Len(idx), LAMBDA k : t[idx[k]].site_id)

ComponentSiteIds(t, idx) ==
  SortSeq(Series(Len(idx), LAMBDA k : t[idx[k]].site_id), LAMBDA a, b : a < b)

\* str(hash(tuple(component_site_ids)))
GroupIdOf(t, idx, seed) == ToString(TupleHash(seed, ComponentSiteIds(t, idx)))

\* group_id_series.value_counts(), looked up for one group_id.
ValueCount(series, v) == Cardinality({i \in 1..Len(series) : series[i] = v})

find_co_location_groups(t, thr_m, seed) ==
  IF Len(t) = 0
  THEN [op |-> "find_co_location_groups", group_id |-> <<>>, group_size |-> <<>>]
  ELSE LET coords_rad == coords_to_radians(t)
           threshold_rad == km_to_radians(thr_m)
           n == Len(t)
           labels == connected_components(n, Adjacency(coords_rad, threshold_rad))
           gid == Series(n, LAMBDA i :
                    GroupIdOf(t, ComponentIndices(labels, labels[i]), seed))
       IN  [op |-> "find_co_location_groups",
            group_id |-> gid,
            group_size |-> Series(n, LAMBDA i : ValueCount(gid, gid[i]))]

(***************************************************************************)
(* Calls of find_co_location_groups                                        *)
(***************************************************************************)

GroupRows == [site_id : SiteIds, lat : NearPositions]

InitGroup ==
  /\ df \in TablesOver(GroupRows, MaxRows)
  /\ threshold_m \in Thresholds
  /\ radius_km = 2
  /\ hashseed \in Seeds
  /\ classification_mode = "quantile"
  /\ classification_thresholds = None
  /\ runs = <<>>
  /\ logged = <<>>
  /\ res = NoResult
  /\ pc = "start"

\* The first call on the table.
FindCoLocationGroups ==
  /\ pc = "start"
  /\ res' = find_co_location_groups(df, threshold_m, hashseed)
  /\ pc' = "called"
  /\ UNCHANGED <<df, threshold_m, radius_km, hashseed, classification_mode,
               classification_thresholds, runs, logged>>

\* The table with rows i and j exchanged.
SwapRows(t, i, j) ==
  [k \in 1..Len(t) |-> IF k = i THEN t[j] ELSE IF k = j THEN t[i] ELSE t[k]]

\* Another call in the same process, on the table with two rows exchanged.
CallOnPermutedTable ==
  /\ pc = "called"
  /\ \E i, j \in 1..Len(df) :
       /\ i < j
       /\ df' = SwapRows(df, i, j)
       /\ res' = find_co_location_groups(df', threshold_m, hashseed)
  /\ pc' = "permuted"
  /\ UNCHANGED <<threshold_m, radius_km, hashseed, classification_mode,
               classification_thresholds, runs, logged>>

\* The interpreter is restarted (a new hash seed) and the same call is made.
CallInNewProcess ==
  /\ pc = "called"
  /\ \E s \in Seeds :
       /\ hashseed' = s
       /\ res' = find_co_location_groups(df, threshold_m, s)
  /\ pc' = "restarted"
  /\ UNCHANGED <<df, threshold_m, radius_km, classification_mode,
               classification_thresholds, runs, logged>>

NextGroup == FindCoLocationGroups \/ CallOnPermutedTable \/ CallInNewProcess

SpecGroup == InitGroup /\ [][NextGroup]_vars

\* Tables whose site_ids are pairwise distinct, and thresholds of either sign.
UniqueIds(t) == \A i, j \in 1..Len(t) : t[i].site_id = t[j].site_id => i = j

InitGroupEdge ==
  /\ df \in {t \in TablesOver(GroupRows, MaxRows) : UniqueIds(t)}
  /\ threshold_m \in EdgeThresholds
  /\ radius_km = 2
  /\ hashseed \in Seeds
  /\ classification_mode = "quantile"
  /\ classification_thresholds = None
  /\ runs = <<>>
  /\ logged = <<>>
  /\ res = NoResult
  /\ pc = "start"

SpecGroupEdge == InitGroupEdge /\ [][NextGroup]_vars

(***************************************************************************)
(* neighbors.py                                                            *)
(***************************************************************************)

\* The query's own point is taken out of the result, and 1 is subtracted too.
neighbor_count_self_twice(coords, i, r) ==
  Cardinality(query_radius(coords, i, r) \ {i}) - 1

\* query_radius(..., count_only=True) - 1
neighbor_count(coords, i, r) == Cardinality(query_radius(coords, i, r)) - 1

\* neighbor_counts / (np.pi * radius_km ** 2), as [num, rsq].
calculate_density(t, r_km) ==
  IF Len(t) = 0
  THEN [op |-> "calculate_density", density |-> <<>>]
  ELSE LET coords_rad == coords_to_radians(t)
           radius_rad == km_to_radians(r_km * 1000)
       IN  [op |-> "calculate_density",
            density |-> Series(Len(t), LAMBDA i :
                           [num |-> neighbor_count(coords_rad, i, radius_rad),
                            rsq |-> r_km * r_km])]

\* num / (pi * rsq) >= 0 and = 0 as floating point decides them (x / 0.0 is
\* inf, -inf or nan).
DensityNonNegative(d) == IF d.rsq = 0 THEN d.num > 0 ELSE d.num >= 0
DensityIsZero(d) == d.rsq # 0 /\ d.num = 0

(***************************************************************************)
(* Calls of calculate_density                                              *)
(***************************************************************************)

DensityRows == [lat : FarPositions]

InitDensity ==
  /\ df \in TablesOver(DensityRows, MaxRows)
  /\ threshold_m = 100
  /\ radius_km \in Radii
  /\ hashseed = 0
  /\ classification_mode = "quantile"
  /\ classification_thresholds = None
  /\ runs = <<>>
  /\ logged = <<>>
  /\ res = NoResult
  /\ pc = "start"

CalculateDensity ==
  /\ pc = "start"
  /\ res' = calculate_density(df, radius_km)
  /\ pc' = "called"
  /\ UNCHANGED <<df, threshold_m, radius_km, hashseed, classification_mode,
               classification_thresholds, runs, logged>>

NextDensity == CalculateDensity

SpecDensity == InitDensity /\ [][NextDensity]_vars

(***************************************************************************)
(* classifier.py                                                           *)
(***************************************************************************)

\* An entry of a Series that was never assigned.
NaN == "NaN"

\* df['cluster_id'].unique(): the values in order of first appearance.
UniqueClusterIds(t) ==
  LET F[i \in 0..Len(t)] ==
        IF i = 0 THEN <<>>
        ELSE IF \E k \in 1..Len(F[i - 1]) : F[i - 1][k] = t[i].cluster_id
             THEN F[i - 1]
             ELSE Append(F[i - 1], t[i].cluster_id)
  IN  F[Len(t)]

\* The mask taken over the whole table, whatever the cluster.
cluster_mask_all(t, cluster_id) == [i \in 1..Len(t) |-> TRUE]

\* df['cluster_id'] == cluster_id
cluster_mask(t, cluster_id) == [i \in 1..Len(t) |-> t[i].cluster_id = cluster_id]

\* df.loc[cluster_mask, 'density'], in row order.
MaskedDensities(t, mask) ==
  LET F[i \in 0..Len(t)] ==
        IF i = 0 THEN <<>>
        ELSE IF mask[i] THEN Append(F[i - 1], t[i].density) ELSE F[i - 1]
  IN  F[Len(t)]

\* The quantile taken without interpolation, at the next order statistic.
Quantile4Higher(ds, q) ==
  LET s == SortSeq(ds, LAMBDA a, b : a < b)
      pos4 == (Len(ds) - 1) * q
      hi == IF pos4 % 4 = 0 THEN pos4 \div 4 ELSE (pos4 \div 4) + 1
  IN  4 * s[hi + 1]

\* Series.quantile(q / 4), linear interpolation, times 4: the value at the
\* position (n - 1) * q / 4 of the sorted values, interpolated between the
\* two order statistics around it.
Quantile4(ds, q) ==
  LET s == SortSeq(ds, LAMBDA a, b : a < b)
      pos4 == (Len(ds) - 1) * q
      lo == pos4 \div 4
      fr == pos4 % 4
      hi == IF fr = 0 THEN lo ELSE lo + 1
  IN  4 * s[lo + 1] + fr * (s[hi + 1] - s[lo + 1])

\* The first cut point taken as an exclusive upper bound.
QuartileClassStrict(d, q25, q50, q75) ==
  IF 4 * d > q75 THEN "Dense"
  ELSE IF 4 * d > q50 /\ 4 * d <= q75 THEN "Urban"
  ELSE IF 4 * d >= q25 /\ 4 * d <= q50 THEN "Suburban"
  ELSE IF 4 * d < q25 THEN "Rural"
  ELSE NaN

\* The four masked assignments of one cluster, the later over the earlier;
\* q25, q50, q75 are 4 times the quantiles.
QuartileClass(d, q25, q50, q75) ==
  IF 4 * d > q75 THEN "Dense"
  ELSE IF 4 * d > q50 /\ 4 * d <= q75 THEN "Urban"
  ELSE IF 4 * d > q25 /\ 4 * d <= q50 THEN "Suburban"
  ELSE IF 4 * d <= q25 THEN "Rural"
  ELSE NaN

_classify_quantile(t) ==
  LET ids == UniqueClusterIds(t)
      F[k \in 0..Len(ids)] ==
        IF k = 0 THEN [i \in 1..Len(t) |-> NaN]
        ELSE LET mask == cluster_mask(t, ids[k])
                 cluster_densities == MaskedDensities(t, mask)
                 q25 == Quantile4(cluster_densities, 1)
                 q50 == Quantile4(cluster_densities, 2)
                 q75 == Quantile4(cluster_densities, 3)
             IN  IF Len(cluster_densities) = 0 THEN F[k - 1]
                 ELSE [i \in 1..Len(t) |->
                         IF mask[i]
                         THEN QuartileClass(t[i].density, q25, q50, q75)
                         ELSE F[k - 1][i]]
  IN  F[Len(ids)]

\* The default cut points (sites per km2).
DefaultThresholds == [rural |-> 10, suburban |-> 50, urban |-> 200]

\* The labels Suburban and Urban taken for each other.
ThresholdClassSwapped(d, th) ==
  IF d > th.urban THEN "Dense"
  ELSE IF d > th.suburban /\ d <= th.urban THEN "Suburban"
  ELSE IF d > th.rural /\ d <= th.suburban THEN "Urban"
  ELSE IF d <= th.rural THEN "Rural"
  ELSE NaN

\* The cut points taken as exclusive upper bounds.
ThresholdClassExclusive(d, th) ==
  IF d >= th.urban THEN "Dense"
  ELSE IF d >= th.suburban /\ d < th.urban THEN "Urban"
  ELSE IF d >= th.rural /\ d < th.suburban THEN "Suburban"
  ELSE IF d < th.rural THEN "Rural"
  ELSE NaN

\* The four masked assignments in order: a later one overwrites an earlier
\* one, an entry no mask selects stays NaN.
ThresholdClass(d, th) ==
  IF d > th.urban THEN "Dense"
  ELSE IF d > th.suburban /\ d <= th.urban THEN "Urban"
  ELSE IF d > th.rural /\ d <= th.suburban THEN "Suburban"
  ELSE IF d <= th.rural THEN "Rural"
  ELSE NaN

\* thresholds is None or a dict from some of the keys to cut points; a key
\* looked up and not there raises KeyError.
_classify_threshold(t, thresholds) ==
  LET th == IF thresholds = None THEN DefaultThresholds ELSE thresholds[1]
  IN  IF {"rural", "suburban", "urban"} \subseteq DOMAIN th
      THEN [op |-> "classify_sites",
            area_class |-> [i \in 1..Len(t) |-> ThresholdClass(t[i].density, th)]]
      ELSE [op |-> "KeyError"]

\* The tables given here always carry the density column, so the check for
\* a missing column never raises.
classify_sites(t, mode, thresholds) ==
  IF mode = "quantile"
  THEN [op |-> "classify_sites", area_class |-> _classify_quantile(t)]
  ELSE IF mode = "threshold" THEN _classify_threshold(t, thresholds)
  ELSE [op |-> "ValueError"]

(***************************************************************************)
(* Calls of classify_sites in quantile mode                                *)
(***************************************************************************)

ClassRows == [density : Densities, cluster_id : ClusterIds]

\* test_quantile_mode: densities 1..8 in one cluster_id.
QuantileModeTable == [i \in 1..8 |-> [density |-> i, cluster_id |-> "1"]]

\* The rows of t whose index is in S, in row order.
SelectRows(t, S) ==
  LET F[i \in 0..Len(t)] ==
        IF i = 0 THEN <<>>
        ELSE IF i \in S THEN Append(F[i - 1], t[i]) ELSE F[i - 1]
  IN  F[Len(t)]

\* Any table within the bounds, or the test's table with rows left out.
InitClassify ==
  /\ df \in TablesOver(ClassRows, MaxClassRows)
            \cup {SelectRows(QuantileModeTable, S) : S \in SUBSET (1..8)}
  /\ threshold_m = 100
  /\ radius_km = 2
  /\ hashseed = 0
  /\ classification_mode = "quantile"
  /\ classification_thresholds = None
  /\ runs = <<>>
  /\ logged = <<>>
  /\ res = NoResult
  /\ pc = "start"

ClassifySites ==
  /\ pc = "start"
  /\ res' = classify_sites(df, "quantile", None)
  /\ pc' = "called"
  /\ UNCHANGED <<df, threshold_m, radius_km, hashseed, classification_mode,
               classification_thresholds, runs, logged>>

\* A site is appended to the table and the table is classified again.
AddSite ==
  /\ pc = "called"
  /\ Len(df) < MaxClassRows
  /\ \E r \in ClassRows : df' = Append(df, r)
  /\ res' = classify_sites(df', "quantile", None)
  /\ pc' = "edited"
  /\ UNCHANGED <<threshold_m, radius_km, hashseed, classification_mode,
               classification_thresholds, runs, logged>>

\* A site is removed from the table and the table is classified again.
RemoveSite ==
  /\ pc = "called"
  /\ \E i \in 1..Len(df) : df' = SelectRows(df, (1..Len(df)) \ {i})
  /\ res' = classify_sites(df', "quantile", None)
  /\ pc' = "edited"
  /\ UNCHANGED <<threshold_m, radius_km, hashseed, classification_mode,
               classification_thresholds, runs, logged>>

\* A site's density is changed and the table is classified again.
ChangeSite ==
  /\ pc = "called"
  /\ Len(df) <= MaxClassRows
  /\ \E i \in 1..Len(df) : \E d \in Densities \ {df[i].density} :
       df' = [df EXCEPT ![i].density = d]
  /\ res' = classify_sites(df', "quantile", None)
  /\ pc' = "edited"
  /\ UNCHANGED <<threshold_m, radius_km, hashseed, classification_mode,
               classification_thresholds, runs, logged>>

NextClassify == ClassifySites \/ AddSite \/ RemoveSite \/ ChangeSite

SpecClassify == InitClassify /\ [][NextClassify]_vars

(***************************************************************************)
(* main.py: the thresholds argument the service layer builds               *)
(***************************************************************************)

\* Each query parameter is None or a cut point; the dict holds the keys of
\* the parameters that were given.
_parse_classification_thresholds(mode, rural_threshold, suburban_threshold, urban_threshold) ==
  IF mode # "threshold" THEN None
  ELSE IF rural_threshold = None /\ suburban_threshold = None
          /\ urban_threshold = None
  THEN None
  ELSE LET given == [rural |-> rural_threshold,
                     suburban |-> suburban_threshold,
                     urban |-> urban_threshold]
           keys == {k \in DOMAIN given : given[k] # None}
       IN  Some([k \in keys |-> given[k][1]])

(***************************************************************************)
(* Calls of classify_sites in either mode                                  *)
(***************************************************************************)

ModeRows == [density : ThresholdDensities, cluster_id : ClusterIds]

\* test_threshold_mode: densities 5, 25, 100, 300 in one cluster_id.
ThresholdModeTable ==
  <<[density |-> 5, cluster_id |-> "1"], [density |-> 25, cluster_id |-> "1"],
    [density |-> 100, cluster_id |-> "1"], [density |-> 300, cluster_id |-> "1"]>>

OptionalCutPoints == {None} \cup {Some(c) : c \in CutPoints}

\* The thresholds argument: what the service layer builds from its query
\* parameters, or the empty dict a direct caller can pass.
ThresholdArgs ==
  {_parse_classification_thresholds("threshold", r, s, u) :
     r \in OptionalCutPoints, s \in OptionalCutPoints, u \in OptionalCutPoints}
  \cup {Some(<<>>)}

InitModes ==
  /\ df \in TablesOver(ModeRows, MaxModeRows) \cup {ThresholdModeTable}
  /\ threshold_m = 100
  /\ radius_km = 2
  /\ hashseed = 0
  /\ classification_mode \in Modes
  /\ classification_thresholds \in
       IF classification_mode = "threshold" THEN ThresholdArgs ELSE {None}
  /\ runs = <<>>
  /\ logged = <<>>
  /\ res = NoResult
  /\ pc = "start"

ClassifySitesInMode ==
  /\ pc = "start"
  /\ res' = classify_sites(df, classification_mode, classification_thresholds)
  /\ pc' = "called"
  /\ UNCHANGED <<df, threshold_m, radius_km, hashseed, classification_mode,
                 classification_thresholds, runs, logged>>

NextModes == ClassifySitesInMode

SpecModes == InitModes /\ [][NextModes]_vars

(***************************************************************************)
(* validator.py                                                            *)
(*                                                                         *)
(* An input table is [columns, rows]: the set of its column names and its  *)
(* rows in order.  A row is a record with the field index (its label in    *)
(* the table's index, 0, 1, ... in an input table) and one field per       *)
(* column.  An input cell is [kind, val]: a number, a text that is no      *)
(* number (val is its rank), or a missing value.  lat is in metres of arc, *)
(* lon in degrees.                                                         *)
(***************************************************************************)

Num(v) == [kind |-> "num", val |-> v]
Text(v) == [kind |-> "text", val |-> v]
Missing == [kind |-> "missing", val |-> 0]

\* 90 degrees of latitude in metres of arc (EARTH_RADIUS_KM = 6371.0).
MaxLatArc == 10007543

required_columns == <<"site_id", "lat", "lon", "cluster_id">>

RequiredSet == {required_columns[k] : k \in 1..Len(required_columns)}

\* str() of a list of column names.
ListRepr(cols) ==
  LET F[i \in 0..Len(cols)] ==
        IF i = 0 THEN ""
        ELSE F[i - 1] \o (IF i = 1 THEN "" ELSE ", ") \o "'" \o cols[i] \o "'"
  IN  "[" \o F[Len(cols)] \o "]"

\* pd.to_numeric(..., errors='coerce'): a number stays, anything else is NaN.
to_numeric(c) == IF c.kind = "num" THEN c ELSE Missing

\* df[required_columns]: a row keeps its label and the required columns.
RequiredPart(r) == [f \in {"index"} \cup RequiredSet |-> r[f]]

\* The conversions of lines 51-54: lat and lon to numbers, site_id and
\* cluster_id to strings (a site_id string is its rank, a numeric
\* cluster_id n becomes the string "n").
ConvertTypes(r) ==
  [index |-> r.index,
   site_id |-> r.site_id.val,
   lat |-> to_numeric(r.lat).val,
   lon |-> to_numeric(r.lon).val,
   cluster_id |-> ToString(r.cluster_id.val)]

invalid_coords(r) ==
  \/ r.lat < -MaxLatArc \/ r.lat > MaxLatArc
  \/ r.lon < -180 \/ r.lon > 180

\* df[other_columns].loc[df_clean.index], joined to df_clean: the row of the
\* input with the same label gives the other columns.
RestoreOther(r, input_rows, other_columns) ==
  LET src == CHOOSE x \in {input_rows[k] : k \in 1..Len(input_rows)} :
               x.index = r.index
  IN  [f \in DOMAIN r \cup other_columns |->
         IF f \in DOMAIN r THEN r[f] ELSE src[f]]

\* The list errors kept across calls: it starts with what earlier calls put
\* there.
KeptErrors(log) == log

\* The list errors at the start of a call: a new, empty list.
NewErrors(log) == <<>>

validate_csv(t, log) ==
  LET missing_columns == SelectSeq(required_columns, LAMBDA c : c \notin t.columns)
  IN  IF missing_columns # <<>>
      THEN [df_clean |-> [columns |-> {}, rows |-> <<>>],
            errors |-> Append(NewErrors(log),
                         "Missing required columns: " \o ListRepr(missing_columns))]
      ELSE
        LET initial_count == Len(t.rows)
            d0 == SelectSeq([i \in 1..Len(t.rows) |-> RequiredPart(t.rows[i])],
                            LAMBDA r : \A c \in RequiredSet : r[c].kind # "missing")
            bad_lat == SelectSeq(d0, LAMBDA r : to_numeric(r.lat).kind = "missing")
            e1 == IF bad_lat # <<>>
                  THEN Append(NewErrors(log), "Dropped " \o ToString(Len(bad_lat))
                                \o " rows with non-numeric lat")
                  ELSE NewErrors(log)
            d1 == SelectSeq(d0, LAMBDA r : to_numeric(r.lat).kind # "missing")
            bad_lon == SelectSeq(d1, LAMBDA r : to_numeric(r.lon).kind = "missing")
            e2 == IF bad_lon # <<>>
                  THEN Append(e1, "Dropped " \o ToString(Len(bad_lon))
                                \o " rows with non-numeric lon")
                  ELSE e1
            d2 == SelectSeq(d1, LAMBDA r : to_numeric(r.lon).kind # "missing")
            d3 == [i \in 1..Len(d2) |-> ConvertTypes(d2[i])]
            bad_coords == SelectSeq(d3, invalid_coords)
            e3 == IF bad_coords # <<>>
                  THEN Append(e2, "Dropped " \o ToString(Len(bad_coords))
                                \o " rows with invalid coordinates")
                  ELSE e2
            d4 == SelectSeq(d3, LAMBDA r : ~invalid_coords(r))
            other_columns == t.columns \ RequiredSet
            d5 == IF other_columns # {}
                  THEN [i \in 1..Len(d4) |-> RestoreOther(d4[i], t.rows, other_columns)]
                  ELSE d4
            dropped_count == initial_count - Len(d5)
            e4 == IF dropped_count > 0
                  THEN Append(e3, "Dropped " \o ToString(dropped_count)
                                \o " invalid rows (from " \o ToString(initial_count)
                                \o " total)")
                  ELSE e3
        IN  [df_clean |-> [columns |-> t.columns, rows |-> d5], errors |-> e4]

(***************************************************************************)
(* pipeline.py                                                             *)
(*                                                                         *)
(* A Series is a sequence of [index, value]: the labels it carries and its *)
(* values, in order.  The locals of a call of process_sites are a record:  *)
(* its arguments, pc (the stage to run next, "returned" or "raised"),      *)
(* df_clean, messages, the stage functions called so far and the exception *)
(* raised, if any.                                                         *)
(***************************************************************************)

\* pi = PiNum / PiDen, to the precision the comparisons of the model need.
PiNum == 355
PiDen == 113

\* The Series gets the labels 0, 1, ... of a new index.
SeriesOnRange(rows, values) ==
  [i \in 1..Len(rows) |-> [index |-> i - 1, value |-> values[i]]]

\* pd.Series(values, index=df.index)
SeriesOn(rows, values) ==
  [i \in 1..Len(rows) |-> [index |-> rows[i].index, value |-> values[i]]]

\* df[col] = series: each row gets the value the Series has at the row's
\* label, na where the Series has no such label.
SetColumn(frame, col, series, na) ==
  [columns |-> frame.columns \cup {col},
   rows |-> [i \in 1..Len(frame.rows) |->
               LET hits == {k \in 1..Len(series) :
                              series[k].index = frame.rows[i].index}
                   v == IF hits = {} THEN na
                        ELSE series[CHOOSE k \in hits : TRUE].value
               IN  (col :> v) @@ frame.rows[i]]]

\* The float num / (pi * rsq) with rsq > 0, multiplied by pi * rsq * PiDen.
ScaledRows(rows) ==
  [i \in 1..Len(rows) |-> [rows[i] EXCEPT !.density = rows[i].density.num * PiDen]]

\* The cut points in force, multiplied by pi * rsq * PiDen as well.
ScaledThresholds(thresholds, rsq) ==
  IF thresholds = None THEN None
  ELSE Some([k \in DOMAIN thresholds[1] |-> thresholds[1][k] * PiNum * rsq])

ScaledDefaults(rsq) ==
  Some([k \in DOMAIN DefaultThresholds |-> DefaultThresholds[k] * PiNum * rsq])

\* classify_sites on a density column of floats.  With rsq > 0 the floats
\* and the cut points are compared after scaling both by pi * rsq * PiDen,
\* which changes no comparison and no interpolation.  With rsq = 0 a float
\* is inf (num > 0) or nan (num = 0): the quantile of a partition is nan,
\* no comparison with nan holds, and inf > urban holds.
classify_floats(rows, r_km, mode, thresholds) ==
  LET rsq == r_km * r_km
  IN  IF rsq # 0
      THEN classify_sites(ScaledRows(rows), mode,
                          IF thresholds = None /\ mode = "threshold"
                          THEN ScaledDefaults(rsq)
                          ELSE ScaledThresholds(thresholds, rsq))
      ELSE IF mode = "quantile"
      THEN [op |-> "classify_sites", area_class |-> [i \in 1..Len(rows) |-> NaN]]
      ELSE IF mode = "threshold"
      THEN IF thresholds # None
              /\ ~({"rural", "suburban", "urban"} \subseteq DOMAIN thresholds[1])
           THEN [op |-> "KeyError"]
           ELSE [op |-> "classify_sites",
                 area_class |-> [i \in 1..Len(rows) |->
                                   IF rows[i].density.num > 0 THEN "Dense" ELSE NaN]]
      ELSE [op |-> "ValueError"]

\* The locals when process_sites is entered.
Call(t, r_km, thr_m, mode, thresholds) ==
  [df |-> t, radius_km |-> r_km, co_location_threshold_m |-> thr_m,
   classification_mode |-> mode, classification_thresholds |-> thresholds,
   pc |-> "validate", df_clean |-> [columns |-> {}, rows |-> <<>>],
   messages |-> <<>>, stages |-> <<>>, exception |-> ""]

\* Step 1 without the return on an empty clean table.
process_sites_validate_on(l, log) ==
  LET v == validate_csv(l.df, log)
  IN  [l EXCEPT !.df_clean = v.df_clean,
                !.messages = l.messages \o v.errors,
                !.stages = Append(l.stages, "validate_csv"),
                !.pc = "density"]

\* Step 1 and the return on an empty clean table.
process_sites_validate(l, log) ==
  LET v == validate_csv(l.df, log)
      m == l.messages \o v.errors
  IN  IF Len(v.df_clean.rows) = 0
      THEN [l EXCEPT !.df_clean = v.df_clean,
                     !.messages = Append(m, "No valid rows after validation"),
                     !.stages = Append(l.stages, "validate_csv"),
                     !.pc = "returned"]
      ELSE [l EXCEPT !.df_clean = v.df_clean,
                     !.messages = m,
                     !.stages = Append(l.stages, "validate_csv"),
                     !.pc = "density"]

\* Step 2.
process_sites_density(l) ==
  LET density == SeriesOn(l.df_clean.rows,
                          calculate_density(l.df_clean.rows, l.radius_km).density)
  IN  [l EXCEPT !.df_clean = SetColumn(l.df_clean, "density", density,
                                       [num |-> 0, rsq |-> 0]),
                !.stages = Append(l.stages, "calculate_density"),
                !.pc = "group"]

\* Step 3.  A count that is NaN is kept as 0.
process_sites_group(l, seed) ==
  LET g == find_co_location_groups(l.df_clean.rows, l.co_location_threshold_m, seed)
      group_id == SeriesOn(l.df_clean.rows, g.group_id)
      group_size == SeriesOn(l.df_clean.rows, g.group_size)
  IN  [l EXCEPT !.df_clean = SetColumn(SetColumn(l.df_clean, "group_id", group_id, NaN),
                                       "group_size", group_size, 0),
                !.stages = Append(l.stages, "find_co_location_groups"),
                !.pc = "classify"]

\* Step 4 and the return; an exception of classify_sites ends the call.
process_sites_classify(l) ==
  LET c == classify_floats(l.df_clean.rows, l.radius_km, l.classification_mode,
                           l.classification_thresholds)
  IN  IF c.op # "classify_sites"
      THEN [l EXCEPT !.stages = Append(l.stages, "classify_sites"),
                     !.exception = c.op,
                     !.pc = "raised"]
      ELSE [l EXCEPT !.df_clean = SetColumn(l.df_clean, "area_class",
                                            SeriesOn(l.df_clean.rows, c.area_class), NaN),
                     !.messages = Append(l.messages,
                                    "Processed " \o ToString(Len(l.df_clean.rows))
                                      \o " sites successfully"),
                     !.stages = Append(l.stages, "classify_sites"),
                     !.pc = "returned"]

\* A whole call, from entry to its return or its exception.
process_sites(l, seed, log) ==
  LET l1 == process_sites_validate(l, log)
  IN  IF l1.pc = "returned" THEN l1
      ELSE process_sites_classify(
             process_sites_group(process_sites_density(l1), seed))

(***************************************************************************)
(* Calls of process_sites                                                  *)
(***************************************************************************)

\* Rows that pass validation: two site_ids, two latitudes 1 km apart on one
\* meridian, two cluster_ids.
ValidRows ==
  [site_id : {Text(1), Text(2)}, lat : {Num(0), Num(1000)}, lon : {Num(0)},
   cluster_id : {Num(1), Num(2)}]

\* Rows that validation drops: a missing value, a text where a number is
\* expected, a coordinate out of range.
InvalidRows ==
  LET ok == [site_id |-> Text(1), lat |-> Num(0), lon |-> Num(0),
             cluster_id |-> Num(1)]
  IN  {[ok EXCEPT !.site_id = Missing], [ok EXCEPT !.cluster_id = Missing],
       [ok EXCEPT !.lat = Missing], [ok EXCEPT !.lat = Text(1)],
       [ok EXCEPT !.lat = Num(MaxLatArc + 1)],
       [ok EXCEPT !.lon = Text(1)], [ok EXCEPT !.lon = Num(181)]}

\* The column sets of the inputs: the required columns, these and a column
\* name, and the columns of test_missing_columns.
ColumnSets == {RequiredSet, RequiredSet \cup {"name"}, {"site_id", "lat"}}

\* The input table with the columns cols whose rows hold the cells of rs;
\* the labels are 0, 1, ... and row i of a column name holds a name of its
\* own.
InputTable(rs, cols) ==
  [columns |-> cols,
   rows |-> [i \in 1..Len(rs) |->
               [f \in {"index"} \cup cols |->
                  IF f = "index" THEN i - 1
                  ELSE IF f = "name" THEN Text(i)
                  ELSE rs[i][f]]]]

PipelineInputs(Rows, n) ==
  {InputTable(rs, cols) : rs \in TablesOver(Rows, n), cols \in ColumnSets}

\* Radii tried (km): negative, zero and positive.
PipelineRadii == {-1, 0, 2}

\* classification_mode and classification_thresholds: the defaults, the
\* threshold mode without thresholds, with a full dict, with a dict of one
\* key, and a mode string the classifier does not know.
ModeArgs ==
  {<<"quantile", None>>, <<"threshold", None>>,
   <<"threshold", Some([rural |-> 0, suburban |-> 1, urban |-> 2])>>,
   <<"threshold", Some([rural |-> 0])>>, <<"kmeans", None>>}

Validate(r) ==
  /\ runs[r].pc = "validate"
  /\ runs' = [runs EXCEPT ![r] = process_sites_validate(runs[r], logged)]
  /\ logged' = logged \o validate_csv(runs[r].df, logged).errors
  /\ UNCHANGED <<df, threshold_m, radius_km, hashseed, classification_mode,
                 classification_thresholds, res, pc>>

Density(r) ==
  /\ runs[r].pc = "density"
  /\ runs' = [runs EXCEPT ![r] = process_sites_density(runs[r])]
  /\ UNCHANGED <<df, threshold_m, radius_km, hashseed, classification_mode,
                 classification_thresholds, res, pc, logged>>

Group(r) ==
  /\ runs[r].pc = "group"
  /\ runs' = [runs EXCEPT ![r] = process_sites_group(runs[r], hashseed)]
  /\ UNCHANGED <<df, threshold_m, radius_km, hashseed, classification_mode,
                 classification_thresholds, res, pc, logged>>

Classify(r) ==
  /\ runs[r].pc = "classify"
  /\ runs' = [runs EXCEPT ![r] = process_sites_classify(runs[r])]
  /\ UNCHANGED <<df, threshold_m, radius_km, hashseed, classification_mode,
                 classification_thresholds, res, pc, logged>>

\* One call of process_sites.
InitPipeline ==
  /\ df = <<>>
  /\ threshold_m = 100
  /\ radius_km = 2
  /\ hashseed \in Seeds
  /\ classification_mode = "quantile"
  /\ classification_thresholds = None
  /\ res = NoResult
  /\ pc = "start"
  /\ runs \in {<<Call(t, r, 100, ma[1], ma[2])>> :
                 t \in PipelineInputs(ValidRows \cup InvalidRows, MaxPipelineRows),
                 r \in PipelineRadii, ma \in ModeArgs}
  /\ logged = <<>>

NextPipeline ==
  \E r \in DOMAIN runs : Validate(r) \/ Density(r) \/ Group(r) \/ Classify(r)

SpecPipeline == InitPipeline /\ [][NextPipeline]_vars

(***************************************************************************)
(* Two calls of process_sites in one process                               *)
(***************************************************************************)

\* Two rows that pass validation and two that do not.
ConcurrentRows ==
  LET ok == [site_id |-> Text(1), lat |-> Num(0), lon |-> Num(0),
             cluster_id |-> Num(1)]
  IN  {ok, [ok EXCEPT !.site_id = Text(2), !.lat = Num(1000)],
       [ok EXCEPT !.lat = Missing], [ok EXCEPT !.lat = Num(MaxLatArc + 1)]}

ConcurrentCalls ==
  {Call(t, 2, 100, ma[1], ma[2]) :
     t \in PipelineInputs(ConcurrentRows, MaxConcurrentRows),
     ma \in {<<"quantile", None>>, <<"kmeans", None>>}}

\* Two calls on different inputs are entered; their steps interleave in any
\* order.
InitConcurrent ==
  /\ df = <<>>
  /\ threshold_m = 100
  /\ radius_km = 2
  /\ hashseed \in Seeds
  /\ classification_mode = "quantile"
  /\ classification_thresholds = None
  /\ res = NoResult
  /\ pc = "start"
  /\ runs \in {p \in ConcurrentCalls \X ConcurrentCalls : p[1].df # p[2].df}
  /\ logged = <<>>

SpecConcurrent == InitConcurrent /\ [][NextPipeline]_vars

(***************************************************************************)
(* Properties of find_co_location_groups                                   *)
(***************************************************************************)

Grouped == res.op = "find_co_location_groups"

\* Two rows of the current table within threshold_m of each other.
Within(i, j) == Abs(df[i].lat - df[j].lat) <= threshold_m

\* The sites of S that a chain of sites of S, each within threshold_m of the
\* next, joins to a site of T.
RECURSIVE ChainClosure(_, _)
ChainClosure(S, T) ==
  LET T2 == T \cup {j \in S : \E k \in T : Within(k, j)}
  IN  IF T2 = T THEN T ELSE ChainClosure(S, T2)

\* There are sites s1..sk of S, s1 = i, sk = j, each within threshold_m of
\* the next.
ChainIn(S, i, j) == i \in S /\ j \in ChainClosure(S, {i})

AllRows == 1..Len(df)

\* The connected component of row i in the proximity graph.
ComponentOf(i) == {j \in AllRows : ChainIn(AllRows, i, j)}

SharingGroupId(i) == {j \in AllRows : res.group_id[j] = res.group_id[i]}

\* C1: after the call every site has one group_id, and its group_size is the
\* number of sites sharing its group_id and the size of its connected
\* component; a site with no neighbour within threshold_m has group_size 1.
C1_GroupSizeIsComponentSize ==
  Grouped =>
    /\ Len(res.group_id) = Len(df)
    /\ Len(res.group_size) = Len(df)
    /\ \A i \in AllRows :
         /\ res.group_size[i] = Cardinality(SharingGroupId(i))
         /\ res.group_size[i] = Cardinality(ComponentOf(i))
         /\ (\A j \in AllRows \ {i} : ~Within(i, j)) => res.group_size[i] = 1

\* C2: two sites with the same group_id are joined by a chain of sites of
\* that group_id, each within threshold_m of the next.
C2_SameGroupIdIsConnected ==
  Grouped =>
    \A i, j \in AllRows :
      res.group_id[i] = res.group_id[j] => ChainIn(SharingGroupId(i), i, j)

C4_RerunSameGroupId ==
  [][(Grouped /\ Grouped' /\ df' = df /\ threshold_m' = threshold_m)
       => res'.group_id = res.group_id]_vars

\* C5: a call on the table with its rows permuted gives each site the
\* group_id and group_size it had before (calls of one process).
C5_PermutationInvariant ==
  [][(Grouped /\ Grouped' /\ hashseed' = hashseed /\ threshold_m' = threshold_m)
       => \A i \in 1..Len(df) : \A j \in 1..Len(df') :
            df[i] = df'[j] =>
              /\ res'.group_id[j] = res.group_id[i]
              /\ res'.group_size[j] = res.group_size[i]]_vars

\* The permuted call has run on a table with two groups of different
\* site_ids, one of them of two sites given in descending site_id order.
C5_Witness ==
  /\ pc = "permuted"
  /\ \E i, j \in AllRows : res.group_id[i] # res.group_id[j]
  /\ \E i, j \in AllRows :
       /\ i < j
       /\ df[i].site_id > df[j].site_id
       /\ res.group_id[i] = res.group_id[j]

\* C6: with threshold_m <= 0 the proximity graph has no edge and every site
\* is a singleton group; an empty table gives an empty result.
C6_NonPositiveThresholdSingletons ==
  Grouped =>
    /\ Len(df) = 0 => res.group_id = <<>> /\ res.group_size = <<>>
    /\ Len(df) = 1 => res.group_size = <<1>>
    /\ threshold_m <= 0 =>
         /\ Adjacency(coords_to_radians(df), km_to_radians(threshold_m)) = {}
         /\ \A i \in AllRows : res.group_size[i] = 1

(***************************************************************************)
(* Properties of calculate_density                                         *)
(***************************************************************************)

DensityDone == res.op = "calculate_density"

\* C7: for radius_km > 0 there is one density per site, every density is
\* >= 0, and every density is 0 when the table has 0 or 1 rows.
C7_DensityNonNegative ==
  (DensityDone /\ radius_km > 0) =>
    /\ Len(res.density) = Len(df)
    /\ \A i \in AllRows : DensityNonNegative(res.density[i])
    /\ Len(df) <= 1 => \A i \in AllRows : DensityIsZero(res.density[i])

\* A one-row table got density 0.
C7_Witness ==
  /\ DensityDone
  /\ radius_km > 0
  /\ Len(df) = 1
  /\ DensityIsZero(res.density[1])

\* The other rows within radius_km of row i, boundary included.
OthersWithinRadius(i) ==
  {j \in AllRows \ {i} : Abs(df[i].lat - df[j].lat) <= radius_km * 1000}

C8_CoincidentCounted ==
  /\ DensityDone
  /\ radius_km > 0
  /\ \E i, j \in AllRows : i # j /\ df[i].lat = df[j].lat /\ res.density[i].num >= 1

(***************************************************************************)
(* Properties of classify_sites in quantile mode                           *)
(***************************************************************************)

Classified == res.op = "classify_sites"

\* The densities of the sites with row i's cluster_id, in row order.
PartitionDensities(t, c) ==
  LET rows == SelectSeq(t, LAMBDA r : r.cluster_id = c)
  IN  [k \in 1..Len(rows) |-> rows[k].density]

\* The class the quartile rule gives density d in a partition with the
\* densities ds.
RuleClass(d, ds) ==
  IF 4 * d <= Quantile4(ds, 1) THEN "Rural"
  ELSE IF 4 * d <= Quantile4(ds, 2) THEN "Suburban"
  ELSE IF 4 * d <= Quantile4(ds, 3) THEN "Urban"
  ELSE "Dense"

\* The classes of the sites of cluster_id c, in row order.
PartitionClasses(t, classes, c) ==
  LET F[i \in 0..Len(t)] ==
        IF i = 0 THEN <<>>
        ELSE IF t[i].cluster_id = c THEN Append(F[i - 1], classes[i])
             ELSE F[i - 1]
  IN  F[Len(t)]

\* Every site's class is the quartile rule applied to the densities of the
\* sites with its own cluster_id.
C9_OwnPartitionRule ==
  Classified =>
    /\ Len(res.area_class) = Len(df)
    /\ \A i \in AllRows :
         res.area_class[i] =
           RuleClass(df[i].density, PartitionDensities(df, df[i].cluster_id))

\* A step that leaves the sites of cluster_id c as they were leaves their
\* classes as they were.
C9_OtherPartitionsUntouched ==
  (Classified /\ Classified') =>
    \A c \in ClusterIds :
      SelectSeq(df', LAMBDA r : r.cluster_id = c)
          = SelectSeq(df, LAMBDA r : r.cluster_id = c)
        => PartitionClasses(df', res'.area_class, c)
             = PartitionClasses(df, res.area_class, c)

\* C9: in quantile mode each site is classified by the quartiles (linear
\* interpolation) of the densities of its own cluster_id, with inclusive
\* upper bounds, and changing, adding or removing sites of another
\* cluster_id never changes its class.
C9_QuantilePerPartition ==
  [](C9_OwnPartitionRule) /\ [][C9_OtherPartitionsUntouched]_vars

\* After an edit, two sites of equal density in different cluster_ids have
\* different classes.
C9_Witness ==
  /\ pc = "edited"
  /\ Classified
  /\ \E i, j \in AllRows :
       /\ df[i].cluster_id # df[j].cluster_id
       /\ df[i].density = df[j].density
       /\ res.area_class[i] # res.area_class[j]

AreaClasses == {"Rural", "Suburban", "Urban", "Dense"}

PairwiseDistinct(ds) == \A a, b \in 1..Len(ds) : ds[a] = ds[b] => a = b

CountClass(c) == Cardinality({i \in AllRows : res.area_class[i] = c})

\* C10: a cluster_id partition of at least 4 sites with pairwise distinct
\* densities contains all four classes; densities 1..8 in one cluster_id
\* give 2 sites in each class.
C10_AllFourClasses ==
  Classified =>
    /\ \A c \in ClusterIds :
         LET ds == PartitionDensities(df, c)
         IN  (Len(ds) >= 4 /\ PairwiseDistinct(ds)) =>
               {res.area_class[i] : i \in {k \in AllRows : df[k].cluster_id = c}}
                 = AreaClasses
    /\ df = QuantileModeTable => \A c \in AreaClasses : CountClass(c) = 2

\* The test's table of 8 densities has been classified, 2 sites per class.
C10_Witness ==
  /\ Classified
  /\ df = QuantileModeTable
  /\ res.area_class = <<"Rural", "Rural", "Suburban", "Suburban",
                        "Urban", "Urban", "Dense", "Dense">>

\* A partition of 4 sites with distinct densities given out of order, beside
\* no other, has all four classes.
C10_UnsortedPartition ==
  /\ Classified
  /\ Len(df) = 4
  /\ df[1].density > df[2].density
  /\ {res.area_class[i] : i \in AllRows} = AreaClasses

(***************************************************************************)
(* Properties of classify_sites in threshold mode                          *)
(***************************************************************************)

ThresholdCalled == pc = "called" /\ classification_mode = "threshold"

\* The defaults with the supplied keys overriding them.
MergedThresholds(thresholds) ==
  IF thresholds = None THEN DefaultThresholds
  ELSE [k \in DOMAIN DefaultThresholds |->
          IF k \in DOMAIN thresholds[1] THEN thresholds[1][k]
          ELSE DefaultThresholds[k]]

\* C11: in threshold mode the call classifies every site by the defaults
\* 10, 50, 200 with the supplied keys overriding them, for no thresholds and
\* for every partial map of thresholds.
C11_PartialMapsKeepDefaults ==
  ThresholdCalled =>
    /\ res.op = "classify_sites"
    /\ \A i \in 1..Len(df) :
         res.area_class[i] =
           ThresholdClass(df[i].density, MergedThresholds(classification_thresholds))

\* A dict with only the key rural is passed and the call raises KeyError.
C11_PartialMapRaises ==
  /\ ThresholdCalled
  /\ classification_thresholds # None
  /\ DOMAIN classification_thresholds[1] = {"rural"}
  /\ res.op = "KeyError"

\* The cut points the call was given in full: the defaults or a full dict.
CutPointsGiven ==
  IF classification_thresholds = None THEN DefaultThresholds
  ELSE classification_thresholds[1]

\* C12: in threshold mode with rural <= suburban <= urban a site is Rural
\* iff density <= rural, Suburban iff rural < density <= suburban, Urban iff
\* suburban < density <= urban, Dense iff density > urban.
C12_InclusiveUpperBounds ==
  (ThresholdCalled /\ Classified) =>
    LET th == CutPointsGiven
    IN  (th.rural <= th.suburban /\ th.suburban <= th.urban) =>
          \A i \in 1..Len(df) :
            LET d == df[i].density
                c == res.area_class[i]
            IN  /\ (c = "Rural") <=> (d <= th.rural)
                /\ (c = "Suburban") <=> (th.rural < d /\ d <= th.suburban)
                /\ (c = "Urban") <=> (th.suburban < d /\ d <= th.urban)
                /\ (c = "Dense") <=> (d > th.urban)

\* With the defaults, a density equal to each cut point falls in the class
\* below it.
C12_Witness ==
  /\ ThresholdCalled
  /\ Classified
  /\ classification_thresholds = None
  /\ \E i \in 1..Len(df) : df[i].density = 10 /\ res.area_class[i] = "Rural"
  /\ \E i \in 1..Len(df) : df[i].density = 50 /\ res.area_class[i] = "Suburban"

\* test_threshold_mode: 5, 25, 100, 300 with the defaults.
C12_TestThresholdMode ==
  /\ ThresholdCalled
  /\ df = ThresholdModeTable
  /\ classification_thresholds \in {None, Some(DefaultThresholds)}
  /\ res.area_class = <<"Rural", "Suburban", "Urban", "Dense">>

\* Rural < Suburban < Urban < Dense.
ClassRank(c) ==
  CASE c = "Rural" -> 1 [] c = "Suburban" -> 2 [] c = "Urban" -> 3
    [] c = "Dense" -> 4

\* C18: every site gets one of the four classes, and the class does not
\* decrease with the density: in threshold mode for any two sites, whatever
\* the cut points, in quantile mode for any two sites of one cluster_id.
C18_ClassMonotoneInDensity ==
  (pc = "called" /\ Classified) =>
    /\ Len(res.area_class) = Len(df)
    /\ \A i \in 1..Len(df) : res.area_class[i] \in AreaClasses
    /\ \A i, j \in 1..Len(df) :
         (/\ df[i].density <= df[j].density
          /\ classification_mode = "quantile" => df[i].cluster_id = df[j].cluster_id)
           => ClassRank(res.area_class[i]) <= ClassRank(res.area_class[j])

\* Threshold mode with cut points given out of order (rural > urban): the
\* denser of two sites is in the higher class.
C18_Witness ==
  /\ ThresholdCalled
  /\ Classified
  /\ classification_thresholds # None
  /\ classification_thresholds[1].rural > classification_thresholds[1].urban
  /\ \E i, j \in 1..Len(df) :
       /\ df[i].density < df[j].density
       /\ ClassRank(res.area_class[i]) < ClassRank(res.area_class[j])

\* Quantile mode: of two sites of one cluster_id the denser is in the
\* higher class.
C18_QuantileSamePartition ==
  /\ pc = "called"
  /\ classification_mode = "quantile"
  /\ Classified
  /\ \E i, j \in 1..Len(df) :
       /\ df[i].cluster_id = df[j].cluster_id
       /\ df[i].density < df[j].density
       /\ ClassRank(res.area_class[i]) < ClassRank(res.area_class[j])

\* C19: in quantile mode a site whose partition holds no density other than
\* its own (a partition of one site, or of sites that all have the same
\* density) is Rural.
C19_TiesFallToRural ==
  Classified =>
    \A i \in 1..Len(df) :
      LET ds == PartitionDensities(df, df[i].cluster_id)
      IN  (\A k \in 1..Len(ds) : ds[k] = df[i].density)
            => res.area_class[i] = "Rural"

\* A partition of two sites with equal densities and a partition of one
\* site: all three are Rural.
C19_Witness ==
  /\ Classified
  /\ Len(df) = 3
  /\ df[1].cluster_id = df[2].cluster_id
  /\ df[1].density = df[2].density
  /\ df[3].cluster_id # df[1].cluster_id
  /\ res.area_class = <<"Rural", "Rural", "Rural">>

(***************************************************************************)
(* Properties of process_sites                                             *)
(***************************************************************************)

Returned(l) == l.pc = "returned"
Raised(l) == l.pc = "raised"
Ended(l) == Returned(l) \/ Raised(l)

\* C13: a call of process_sites with a mode string other than "quantile"
\* and "threshold" ends, for any input table, with the invalid-mode error
\* (ValueError) and returns no table; a call that raised takes no further
\* step.
C13_InvalidModeFails ==
  \A r \in DOMAIN runs :
    (runs[r].classification_mode \notin {"quantile", "threshold"} /\ Ended(runs[r]))
      => (Raised(runs[r]) /\ runs[r].exception = "ValueError")

\* With at least one valid row the invalid mode is met at step 4, after the
\* density and the groups were computed.
C13_RaisedAtClassify ==
  \E r \in DOMAIN runs :
    /\ runs[r].classification_mode = "kmeans"
    /\ Raised(runs[r])
    /\ runs[r].exception = "ValueError"
    /\ runs[r].stages = <<"validate_csv", "calculate_density",
                          "find_co_location_groups", "classify_sites">>

\* With no valid row the call returns although the mode is invalid.
C13_ReturnedWithInvalidMode ==
  \E r \in DOMAIN runs :
    /\ runs[r].classification_mode = "kmeans"
    /\ Returned(runs[r])
    /\ runs[r].df.columns = RequiredSet
    /\ runs[r].df.rows = <<>>
    /\ runs[r].messages = <<"No valid rows after validation">>

\* C14: a call of process_sites with radius_km <= 0 never returns a table
\* with a density column.
C14_NonPositiveRadiusRejected ==
  \A r \in DOMAIN runs :
    runs[r].radius_km <= 0
      => ~(Returned(runs[r]) /\ "density" \in runs[r].df_clean.columns)

\* radius_km = 0 on one valid row: the call returns the row with density
\* 0 / 0 and reports success.
C14_ZeroRadiusReturned ==
  \E r \in DOMAIN runs :
    /\ runs[r].radius_km = 0
    /\ Returned(runs[r])
    /\ Len(runs[r].df_clean.rows) = 1
    /\ runs[r].df_clean.rows[1].density = [num |-> 0, rsq |-> 0]
    /\ runs[r].messages = <<"Processed 1 sites successfully">>

\* radius_km = -1 on one valid row: the call returns the row with density
\* -1 / pi and reports success.
C14_NegativeRadiusReturned ==
  \E r \in DOMAIN runs :
    /\ runs[r].radius_km = -1
    /\ Returned(runs[r])
    /\ Len(runs[r].df_clean.rows) = 1
    /\ runs[r].df_clean.rows[1].density = [num |-> -1, rsq |-> 1]
    /\ runs[r].messages = <<"Processed 1 sites successfully">>

\* A row of an input table that has every required value, numeric
\* coordinates and coordinates in range.
RowIsValid(r) ==
  /\ \A c \in RequiredSet : r[c].kind # "missing"
  /\ r.lat.kind = "num" /\ r.lon.kind = "num"
  /\ -MaxLatArc <= r.lat.val /\ r.lat.val <= MaxLatArc
  /\ -180 <= r.lon.val /\ r.lon.val <= 180

\* The rows of an input table that survive validation, in the table's order.
Survivors(t) ==
  IF RequiredSet \subseteq t.columns THEN SelectSeq(t.rows, RowIsValid) ELSE <<>>

\* C15: when the input lacks a required column, has no row or has no valid
\* row, process_sites returns right after validation: no other stage
\* function is called, no exception is raised, the table returned has no
\* row and the messages are the validation warnings followed by
\* "No valid rows after validation".
C15_EmptyShortCircuits ==
  \A r \in DOMAIN runs :
    LET l == runs[r]
        n == Len(l.messages)
    IN  (l.pc # "validate" /\ Survivors(l.df) = <<>>) =>
          /\ Returned(l)
          /\ l.exception = ""
          /\ l.stages = <<"validate_csv">>
          /\ l.df_clean.rows = <<>>
          /\ n >= 1
          /\ l.messages[n] = "No valid rows after validation"
          /\ SubSeq(l.messages, 1, n - 1) = validate_csv(l.df, <<>>).errors

\* Every row of the input was dropped: the warnings come first, then the
\* message.
C15_Witness ==
  \E r \in DOMAIN runs :
    /\ Returned(runs[r])
    /\ Len(runs[r].df.rows) = 1
    /\ runs[r].df.rows[1].lat = Num(MaxLatArc + 1)
    /\ runs[r].stages = <<"validate_csv">>
    /\ runs[r].df_clean.rows = <<>>
    /\ runs[r].messages = <<"Dropped 1 rows with invalid coordinates",
                            "Dropped 1 invalid rows (from 1 total)",
                            "No valid rows after validation">>

\* test_missing_columns as input: the schema error ends the call the same
\* way.
C15_SchemaError ==
  \E r \in DOMAIN runs :
    /\ Returned(runs[r])
    /\ runs[r].df.columns = {"site_id", "lat"}
    /\ runs[r].stages = <<"validate_csv">>
    /\ runs[r].messages = <<"Missing required columns: ['lon', 'cluster_id']",
                            "No valid rows after validation">>

EnrichedColumns ==
  RequiredSet \cup {"density", "group_id", "group_size", "area_class"}

\* The row of table t with the label x.
RowAt(t, x) == CHOOSE row \in {t.rows[k] : k \in 1..Len(t.rows)} : row.index = x

\* C16: every table process_sites returns has the columns site_id, lat,
\* lon, cluster_id, density, group_id, group_size, area_class and the other
\* columns of the input, and a row's values in these other columns are
\* those of the input row.
C16_ReturnedColumns ==
  \A r \in DOMAIN runs :
    LET l == runs[r]
        extra == l.df.columns \ RequiredSet
    IN  Returned(l) =>
          /\ l.df_clean.columns = EnrichedColumns \cup extra
          /\ \A i \in 1..Len(l.df_clean.rows) : \A c \in extra :
               l.df_clean.rows[i][c] = RowAt(l.df, l.df_clean.rows[i].index)[c]

\* test_empty_dataframe as input: the table returned has the four required
\* columns only.
C16_EmptyTableLacksColumns ==
  \E r \in DOMAIN runs :
    /\ Returned(runs[r])
    /\ runs[r].df = [columns |-> RequiredSet, rows |-> <<>>]
    /\ runs[r].df_clean.columns = RequiredSet

\* An input with a column name and a dropped first row: the table returned
\* has the eight columns and name, with the name of the surviving row.
C16_EnrichedWithExtra ==
  \E r \in DOMAIN runs :
    /\ Returned(runs[r])
    /\ Len(runs[r].df.rows) = 2
    /\ Len(runs[r].df_clean.rows) = 1
    /\ runs[r].df_clean.columns = EnrichedColumns \cup {"name"}
    /\ runs[r].df_clean.rows[1].index = 1
    /\ runs[r].df_clean.rows[1].name = Text(2)

\* The derived columns computed from the validated rows vs, position by
\* position.
DerivedFrom(vs, l) ==
  LET dens == calculate_density(vs, l.radius_km).density
      g == find_co_location_groups(vs, l.co_location_threshold_m, hashseed)
      withd == [i \in 1..Len(vs) |-> ("density" :> dens[i]) @@ vs[i]]
      c == classify_floats(withd, l.radius_km, l.classification_mode,
                           l.classification_thresholds)
  IN  [density |-> dens, group_id |-> g.group_id, group_size |-> g.group_size,
       area_class |-> c.area_class]

\* C20: the table process_sites returns has exactly the input rows that
\* survive validation, once each and in the input's order; site_id, lat,
\* lon and cluster_id are the validated values of that input row; and
\* density, group_id, group_size and area_class of the row at position i are
\* the values the stage functions compute for position i of the validated
\* table.
C20_RowsAligned ==
  \A r \in DOMAIN runs :
    LET l == runs[r]
        s == Survivors(l.df)
        vs == [i \in 1..Len(s) |-> ConvertTypes(s[i])]
        rows == l.df_clean.rows
    IN  Returned(l) =>
          /\ Len(rows) = Len(s)
          /\ \A i \in 1..Len(rows) :
               /\ rows[i].index = s[i].index
               /\ \A c \in RequiredSet : rows[i][c] = vs[i][c]
          /\ Len(l.stages) = 4 =>
               LET d == DerivedFrom(vs, l)
               IN  \A i \in 1..Len(rows) :
                     /\ rows[i].density = d.density[i]
                     /\ rows[i].group_id = d.group_id[i]
                     /\ rows[i].group_size = d.group_size[i]
                     /\ rows[i].area_class = d.area_class[i]

\* The first of two input rows is dropped: the table returned holds the
\* second row, under its label 1, with the derived values of a lone site.
C20_Witness ==
  \E r \in DOMAIN runs :
    /\ Returned(runs[r])
    /\ runs[r].radius_km = 2
    /\ runs[r].classification_mode = "quantile"
    /\ runs[r].df.columns = RequiredSet
    /\ Len(runs[r].df.rows) = 2
    /\ ~RowIsValid(runs[r].df.rows[1])
    /\ Len(runs[r].df_clean.rows) = 1
    /\ runs[r].df_clean.rows[1].index = 1
    /\ runs[r].df_clean.rows[1].site_id = runs[r].df.rows[2].site_id.val
    /\ runs[r].df_clean.rows[1].density = [num |-> 0, rsq |-> 4]
    /\ runs[r].df_clean.rows[1].group_size = 1
    /\ runs[r].df_clean.rows[1].area_class = "Rural"

\* The messages of a call that kept n of its input rows and went through
\* all stages: the validator's messages in their order, among them the count
\* of dropped rows if any was dropped, then the completion message.
MessagesAsClaimed(l, n) ==
  LET k == Len(l.messages)
      total == Len(l.df.rows)
  IN  /\ k >= 1
      /\ SubSeq(l.messages, 1, k - 1) = validate_csv(l.df, <<>>).errors
      /\ l.messages[k] = "Processed " \o ToString(n) \o " sites successfully"
      /\ \A i \in 1..(k - 1) : l.messages[i] # l.messages[k]
      /\ total > n =>
           \E i \in 1..(k - 1) :
             l.messages[i] = "Dropped " \o ToString(total - n)
                               \o " invalid rows (from " \o ToString(total)
                               \o " total)"

\* The arguments are in the domain of the interface: radius_km > 0 and a
\* mode the classifier knows (thresholds may hold any subset of the keys).
ArgumentsInDomain(l) ==
  l.radius_km > 0 /\ l.classification_mode \in {"quantile", "threshold"}

\* C21: a call with arguments in the interface's domain whose input has
\* rows that validation drops and at least one valid row ends by returning:
\* the table returned has the valid rows and the derived columns, and
\* messages is the validator's messages in their order, with the count
\* input rows minus surviving rows among them, followed by exactly one
\* completion message with the number of surviving rows.
C21_RowErrorsNotFatal ==
  \A r \in DOMAIN runs :
    LET l == runs[r]
        n == Len(Survivors(l.df))
    IN  (ArgumentsInDomain(l) /\ n >= 1 /\ Len(l.df.rows) > n /\ Ended(l)) =>
          /\ Returned(l)
          /\ Len(l.df_clean.rows) = n
          /\ EnrichedColumns \subseteq l.df_clean.columns
          /\ MessagesAsClaimed(l, n)

\* The same for every input with a valid row, when thresholds is None or
\* holds all three keys.
C21_HoldsWithAllKeys ==
  \A r \in DOMAIN runs :
    LET l == runs[r]
        n == Len(Survivors(l.df))
    IN  (/\ ArgumentsInDomain(l) /\ n >= 1 /\ Ended(l)
         /\ \/ l.classification_thresholds = None
            \/ l.classification_mode = "quantile"
            \/ DOMAIN l.classification_thresholds[1] = DOMAIN DefaultThresholds) =>
          /\ Returned(l)
          /\ Len(l.df_clean.rows) = n
          /\ EnrichedColumns \subseteq l.df_clean.columns
          /\ MessagesAsClaimed(l, n)

\* One of two rows has an out-of-range latitude: the call returns the other
\* row with both drop messages and the completion message.
C21_DroppedRowReported ==
  \E r \in DOMAIN runs :
    /\ Returned(runs[r])
    /\ runs[r].radius_km = 2
    /\ Len(runs[r].df.rows) = 2
    /\ Len(runs[r].df_clean.rows) = 1
    /\ runs[r].messages = <<"Dropped 1 rows with invalid coordinates",
                            "Dropped 1 invalid rows (from 2 total)",
                            "Processed 1 sites successfully">>

\* One of two rows is dropped and thresholds holds the key rural only: the
\* call raises KeyError at step 4 and returns nothing.
C21_RaisedWithValidRow ==
  \E r \in DOMAIN runs :
    /\ Raised(runs[r])
    /\ runs[r].exception = "KeyError"
    /\ runs[r].radius_km = 2
    /\ runs[r].classification_mode = "threshold"
    /\ Len(runs[r].df.rows) = 2
    /\ Len(Survivors(runs[r].df)) = 1

(***************************************************************************)
(* Properties of concurrent calls of process_sites                         *)
(***************************************************************************)

\* The call with the arguments of l, run alone from its entry to its end in
\* a process that has logged nothing.
RunAlone(l) ==
  process_sites(Call(l.df, l.radius_km, l.co_location_threshold_m,
                     l.classification_mode, l.classification_thresholds),
                hashseed, <<>>)

EndedAsAlone ==
  \A r \in DOMAIN runs : Ended(runs[r]) => runs[r] = RunAlone(runs[r])

\* A step changes the locals of one call only.
OneCallSteps ==
  \A r \in DOMAIN runs :
    runs'[r] # runs[r] => \A q \in DOMAIN runs \ {r} : runs'[q] = runs[q]

\* C17: of two calls of process_sites on different inputs whose steps
\* interleave in any order, each ends with the table, the messages and the
\* exception it ends with when run alone, and no step of one call changes
\* the locals of the other.
C17_ConcurrentRunsIndependent == []EndedAsAlone /\ [][OneCallSteps]_vars

\* Both calls have ended; the second was validated first and its warnings
\* are in the log, the first went through all four stages.
C17_Witness ==
  /\ Len(runs) = 2
  /\ Ended(runs[1]) /\ Ended(runs[2])
  /\ Len(runs[1].stages) = 4
  /\ Len(runs[2].messages) = 3
  /\ logged = SubSeq(runs[2].messages, 1, 2)
  /\ runs[1] = RunAlone(runs[1]) /\ runs[2] = RunAlone(runs[2])

\* Both calls are between their steps 2 and 3 at the same time.
C17_Interleaved ==
  /\ Len(runs) = 2
  /\ runs[1].pc = "group" /\ runs[2].pc = "group"

====
